---- MODULE Spec2Model ----
(***************************************************************************)
(* Model of pkg/trivy/wrapper.go: wrapper.Run and wrapper.parseScanReports. *)
(* Each Run call is a process that walks through the statements of Run; the *)
(* reports directory (names -> inodes -> bytes) and the ambient environment *)
(* are the only state shared between calls.                                 *)
(***************************************************************************)
EXTENDS Naturals, Sequences, FiniteSets

VARIABLES
  environ,       \* os.Environ(): sequence of <<key, value>>
  dir,           \* w.config.ReportsDir: file name -> inode (NoInode = no such file)
  data,          \* inode -> bytes of the file
  writer,        \* inode -> call whose subprocess last wrote it (0 = nobody)
  pc,            \* call -> position in Run
  req,           \* call -> arguments of Run (auth, insecureRegistry)
  reportFile,    \* call -> *os.File returned by ioutil.TempFile
  cmd,           \* call -> exec.Cmd (Env, --output path)
  stderrBuffer,  \* call -> captured standard error
  ret,           \* call -> named results (report, err)
  scanOut,       \* call -> bytes its own subprocess last wrote
  trace          \* call -> stages executed so far, with each stage's error

vars == <<environ, dir, data, writer, pc, req, reportFile, cmd, stderrBuffer,
          ret, scanOut, trace>>

----------------------------------------------------------------------------
\* Bounds of the model.
NumCalls   == 2   \* concurrent Run calls
NumNames   == 2   \* names ioutil.TempFile can draw in the reports directory
MaxReports == 2   \* sub-reports in a decoded report file
MaxVulns   == 2   \* vulnerabilities per sub-report

Calls  == 1..NumCalls
Names  == 1..NumNames
Inodes == 1..(2 * NumCalls)
NoInode == 0

SeqUpTo(S, n) == UNION {[1..k -> S] : k \in 0..n}

----------------------------------------------------------------------------
\* Values.

\* ScanReport and its zero value.
ScanReport(t, vs) == [Target |-> t, Vulnerabilities |-> vs]
ZeroReport == ScanReport("", <<>>)

\* error values: nil, or an error with its formatted message parts.
NilErr == [isNil |-> TRUE, msg |-> <<>>]
NewErr(parts) == [isNil |-> FALSE, msg |-> parts]

\* Bytes of a report file: nothing written, not a JSON array of reports,
\* the JSON value null, or a JSON array of sub-reports.
Bytes(kind, reports) == [kind |-> kind, reports |-> reports]
EmptyFile == Bytes("empty", <<>>)
Malformed == Bytes("malformed", <<>>)
JsonNull  == Bytes("null", <<>>)
JsonArray(reports) == Bytes("array", reports)

Targets == {"alpine:3.10 (alpine 3.10.2)", "app/package-lock.json"}
VulnIDs == {"CVE-2019-0001", "CVE-2019-0002"}
SubReports == {ScanReport(t, vs) : t \in Targets, vs \in SeqUpTo(VulnIDs, MaxVulns)}
ParseInputs == {EmptyFile, Malformed, JsonNull}
               \cup {JsonArray(rs) : rs \in SeqUpTo(SubReports, MaxReports)}

NoFile == [name |-> 0, inode |-> NoInode]
NoCmd  == [Env |-> <<>>, output |-> 0]
NoReq  == [username |-> "", password |-> "", insecure |-> FALSE]

----------------------------------------------------------------------------
\* parseScanReports (wrapper.go:115-135).

\* json.NewDecoder(reportFile).Decode(&scanReports): the decode error ("" when
\* none) and the decoded slice.  null decodes to a nil slice without error.
Decode(bytes) ==
  CASE bytes.kind = "empty"     -> [err |-> "EOF", val |-> <<>>]
    [] bytes.kind = "malformed" -> [err |-> "json: cannot unmarshal", val |-> <<>>]
    [] bytes.kind = "null"      -> [err |-> "", val |-> <<>>]
    [] OTHER                    -> [err |-> "", val |-> bytes.reports]

\* Mutant: each sub-report's vulnerabilities are put in front of those collected.
RECURSIVE CollectPrepend(_, _, _)
CollectPrepend(scanReports, i, acc) ==
  IF i > Len(scanReports) THEN acc
  ELSE CollectPrepend(scanReports, i + 1, scanReports[i].Vulnerabilities \o acc)

\* The range loop of lines 129-132: append every sub-report's vulnerabilities.
RECURSIVE CollectVulnerabilities(_, _, _)
CollectVulnerabilities(scanReports, i, acc) ==
  IF i > Len(scanReports) THEN acc
  ELSE CollectVulnerabilities(scanReports, i + 1,
                              acc \o scanReports[i].Vulnerabilities)

\* Mutant: the target is taken from the last sub-report.
parseLastTarget(bytes) ==
  LET d == Decode(bytes) IN
  IF d.err # ""
    THEN [report |-> ZeroReport,
          err |-> NewErr(<<"decoding scan report from file ", d.err>>)]
  ELSE IF Len(d.val) = 0
    THEN [report |-> ZeroReport,
          err |-> NewErr(<<"expected at least one report">>)]
  ELSE [report |-> ScanReport(d.val[Len(d.val)].Target,
                              CollectVulnerabilities(d.val, 1, <<>>)),
        err |-> NilErr]

\* Mutant: the length check is missing, zero sub-reports give an empty aggregate.
parseNoEmptyCheck(bytes) ==
  LET d == Decode(bytes) IN
  IF d.err # ""
    THEN [report |-> ZeroReport,
          err |-> NewErr(<<"decoding scan report from file ", d.err>>)]
  ELSE [report |-> ScanReport(IF Len(d.val) = 0 THEN "" ELSE d.val[1].Target,
                              CollectVulnerabilities(d.val, 1, <<>>)),
        err |-> NilErr]

parseScanReports(bytes) ==
  LET d == Decode(bytes) IN
  IF d.err # ""
    THEN [report |-> ZeroReport,
          err |-> NewErr(<<"decoding scan report from file ", d.err>>)]
  ELSE IF Len(d.val) = 0
    THEN [report |-> ZeroReport,
          err |-> NewErr(<<"expected at least one report">>)]
  ELSE [report |-> ScanReport(d.val[1].Target,
                              CollectVulnerabilities(d.val, 1, <<>>)),
        err |-> NilErr]

----------------------------------------------------------------------------
\* The subprocess environment (wrapper.go:79-87).

TRIVY_USERNAME == "TRIVY_USERNAME"
TRIVY_PASSWORD == "TRIVY_PASSWORD"
TRIVY_NON_SSL  == "TRIVY_NON_SSL"

\* Mutant: the credentials are added when either one is non-empty.
BuildEnvEitherCredential(env, auth, insecureRegistry) ==
  LET withAuth ==
        IF auth.username # "" \/ auth.password # ""
          THEN env \o << <<TRIVY_USERNAME, auth.username>>,
                         <<TRIVY_PASSWORD, auth.password>> >>
          ELSE env
  IN IF insecureRegistry
       THEN Append(withAuth, <<TRIVY_NON_SSL, "true">>)
       ELSE withAuth

\* Mutant: TRIVY_NON_SSL is always added, with the flag's value.
BuildEnvAlwaysNonSSL(env, auth, insecureRegistry) ==
  LET withAuth ==
        IF auth.username # "" /\ auth.password # ""
          THEN env \o << <<TRIVY_USERNAME, auth.username>>,
                         <<TRIVY_PASSWORD, auth.password>> >>
          ELSE env
  IN Append(withAuth, <<TRIVY_NON_SSL, IF insecureRegistry THEN "true" ELSE "false">>)

BuildEnv(env, auth, insecureRegistry) ==
  LET withAuth ==
        IF auth.username # "" /\ auth.password # ""
          THEN env \o << <<TRIVY_USERNAME, auth.username>>,
                         <<TRIVY_PASSWORD, auth.password>> >>
          ELSE env
  IN IF insecureRegistry
       THEN Append(withAuth, <<TRIVY_NON_SSL, "true">>)
       ELSE withAuth

\* What the started process sees of cmd.Env: os/exec keeps one entry per key,
\* at the place of the key's first entry and with the value of its last.
LastValue(env, k) ==
  env[CHOOSE i \in 1..Len(env) :
        /\ env[i][1] = k
        /\ \A j \in (i + 1)..Len(env) : env[j][1] # k][2]

RECURSIVE dedupEnvFrom(_, _)
dedupEnvFrom(env, i) ==
  IF i > Len(env) THEN <<>>
  ELSE IF \E j \in 1..(i - 1) : env[j][1] = env[i][1]
    THEN dedupEnvFrom(env, i + 1)
  ELSE <<  <<env[i][1], LastValue(env, env[i][1])>>  >> \o dedupEnvFrom(env, i + 1)

dedupEnv(env) == dedupEnvFrom(env, 1)

----------------------------------------------------------------------------
\* Inputs.

Usernames == {"", "admin"}
Passwords == {"", "Harbor12345"}
Requests  == [username : Usernames, password : Passwords, insecure : BOOLEAN]

\* The request, scanner outputs and standard error of the concurrent callers.
ConcRequests == {[username |-> "admin", password |-> "Harbor12345", insecure |-> TRUE]}
ConcOutputs  == {JsonArray(<<>>),
                 JsonArray(<< ScanReport("alpine:3.10 (alpine 3.10.2)", <<"CVE-2019-0001">>) >>)}
ConcStderrs  == {"unable to pull image"}

BaseEnv == << <<"PATH", "/usr/local/bin">> >>
AmbientCredentials ==
  { <<>>,
    << <<TRIVY_USERNAME, "ambient-user">> >>,
    << <<TRIVY_USERNAME, "ambient-user">>, <<TRIVY_PASSWORD, "ambient-pass">> >> }
AmbientNonSSL ==
  { <<>>, << <<TRIVY_NON_SSL, "true">> >>, << <<TRIVY_NON_SSL, "false">> >> }
Environs == {BaseEnv \o a \o n : a \in AmbientCredentials, n \in AmbientNonSSL}

\* What a scanner run may leave in its output file, and on standard error.
ScanOutputs == {Malformed,
                JsonArray(<<>>),
                JsonArray(<< ScanReport("alpine:3.10 (alpine 3.10.2)", <<"CVE-2019-0001">>) >>)}
Stderrs == {"", "unable to pull image"}

----------------------------------------------------------------------------
\* State machine.

Stage(name, err, inode) == [stage |-> name, err |-> err, inode |-> inode]
Creator(i) == IF i <= NumCalls THEN i ELSE i - NumCalls

IdleState ==
  /\ dir = [n \in Names |-> NoInode]
  /\ data = [i \in Inodes |-> EmptyFile]
  /\ writer = [i \in Inodes |-> 0]
  /\ pc = [c \in Calls |-> "idle"]
  /\ req = [c \in Calls |-> NoReq]
  /\ reportFile = [c \in Calls |-> NoFile]
  /\ cmd = [c \in Calls |-> NoCmd]
  /\ stderrBuffer = [c \in Calls |-> ""]
  /\ ret = [c \in Calls |-> [report |-> ZeroReport, err |-> NilErr]]
  /\ scanOut = [c \in Calls |-> EmptyFile]
  /\ trace = [c \in Calls |-> <<>>]

Init == environ = BaseEnv /\ IdleState

\* Lines 36-42: entry and exec.LookPath("trivy").
Run(c, r) ==
  /\ pc[c] = "idle"
  /\ req' = [req EXCEPT ![c] = r]
  /\ \/ /\ pc' = [pc EXCEPT ![c] = "tempfile"]
        /\ trace' = [trace EXCEPT ![c] = Append(@, Stage("resolve", "", NoInode))]
        /\ ret' = ret
     \/ /\ pc' = [pc EXCEPT ![c] = "returned"]
        /\ trace' = [trace EXCEPT ![c] = Append(@, Stage("resolve", "not found", NoInode))]
        /\ ret' = [ret EXCEPT ![c] =
                     [report |-> @.report,
                      err |-> NewErr(<<"exec: \"trivy\": executable file not found in $PATH">>)]]
  /\ UNCHANGED <<environ, dir, data, writer, reportFile, cmd, stderrBuffer, scanOut>>

\* Mutant: the file is opened without O_EXCL, so a drawn name that exists
\* opens the existing file.
TempFileNoExcl(c) ==
  /\ pc[c] = "tempfile"
  /\ \/ \E n \in Names :
          /\ IF dir[n] = NoInode
               THEN /\ dir' = [dir EXCEPT ![n] = c]
                    /\ data' = [data EXCEPT ![c] = EmptyFile]
                    /\ writer' = [writer EXCEPT ![c] = 0]
               ELSE UNCHANGED <<dir, data, writer>>
          /\ reportFile' = [reportFile EXCEPT ![c] = [name |-> n, inode |-> dir'[n]]]
          /\ pc' = [pc EXCEPT ![c] = "command"]
          /\ trace' = [trace EXCEPT ![c] = Append(@, Stage("create", "", dir'[n]))]
          /\ ret' = ret
     \/ /\ pc' = [pc EXCEPT ![c] = "returned"]
        /\ trace' = [trace EXCEPT ![c] = Append(@, Stage("create", "open failed", NoInode))]
        /\ ret' = [ret EXCEPT ![c] =
                     [report |-> @.report, err |-> NewErr(<<"open scan_report: failed">>)]]
        /\ UNCHANGED <<dir, data, writer, reportFile>>
  /\ UNCHANGED <<environ, req, cmd, stderrBuffer, scanOut>>

\* Lines 44-55: ioutil.TempFile creates a file under a name that does not
\* exist (O_EXCL), or fails; the deferred removal is registered.
TempFile(c) ==
  /\ pc[c] = "tempfile"
  /\ \/ \E n \in Names :
          /\ dir[n] = NoInode
          /\ dir' = [dir EXCEPT ![n] = c]
          /\ data' = [data EXCEPT ![c] = EmptyFile]
          /\ writer' = [writer EXCEPT ![c] = 0]
          /\ reportFile' = [reportFile EXCEPT ![c] = [name |-> n, inode |-> c]]
          /\ pc' = [pc EXCEPT ![c] = "command"]
          /\ trace' = [trace EXCEPT ![c] = Append(@, Stage("create", "", c))]
          /\ ret' = ret
     \/ /\ pc' = [pc EXCEPT ![c] = "returned"]
        /\ trace' = [trace EXCEPT ![c] = Append(@, Stage("create", "open failed", NoInode))]
        /\ ret' = [ret EXCEPT ![c] =
                     [report |-> @.report, err |-> NewErr(<<"open scan_report: failed">>)]]
        /\ UNCHANGED <<dir, data, writer, reportFile>>
  /\ UNCHANGED <<environ, req, cmd, stderrBuffer, scanOut>>

\* Mutant: a process that cannot be started is not treated as a failure of
\* the call, which goes on to parse the report file.
StartCmdIgnoresFailure(c) ==
  /\ pc[c] = "command"
  /\ cmd' = [cmd EXCEPT ![c] =
               [Env |-> BuildEnv(environ, req[c], req[c].insecure),
                output |-> reportFile[c].name]]
  /\ \/ /\ pc' = [pc EXCEPT ![c] = "running"]
        /\ UNCHANGED <<ret, trace>>
     \/ /\ pc' = [pc EXCEPT ![c] = "parse"]
        /\ trace' = [trace EXCEPT ![c] = Append(@, Stage("execute", "fork/exec failed", NoInode))]
        /\ ret' = ret
  /\ UNCHANGED <<environ, dir, data, writer, req, reportFile, stderrBuffer, scanOut>>

\* Lines 57-93: build the command and its environment, start the process.
\* A process that cannot be started makes cmd.Output() return at once.
StartCmd(c) ==
  /\ pc[c] = "command"
  /\ cmd' = [cmd EXCEPT ![c] =
               [Env |-> BuildEnv(environ, req[c], req[c].insecure),
                output |-> reportFile[c].name]]
  /\ \/ /\ pc' = [pc EXCEPT ![c] = "running"]
        /\ UNCHANGED <<ret, trace>>
     \/ /\ pc' = [pc EXCEPT ![c] = "deferred"]
        /\ trace' = [trace EXCEPT ![c] = Append(@, Stage("execute", "fork/exec failed", NoInode))]
        /\ ret' = [ret EXCEPT ![c] =
                     [report |-> @.report,
                      err |-> NewErr(<<"running trivy: ", "fork/exec failed", ": ",
                                       stderrBuffer[c]>>)]]
  /\ UNCHANGED <<environ, dir, data, writer, req, reportFile, stderrBuffer, scanOut>>

\* The scanner process writes its report to the --output path.
TrivyWrite(c, bytes) ==
  /\ pc[c] = "running"
  /\ LET n == cmd[c].output
         i == IF dir[n] = NoInode THEN NumCalls + c ELSE dir[n]
     IN /\ dir' = [dir EXCEPT ![n] = i]
        /\ data' = [data EXCEPT ![i] = bytes]
        /\ writer' = [writer EXCEPT ![i] = c]
  /\ scanOut' = [scanOut EXCEPT ![c] = bytes]
  /\ UNCHANGED <<environ, pc, req, reportFile, cmd, stderrBuffer, ret, trace>>

\* Mutant: the removal is not deferred but placed after the parse, so a failed
\* scan returns without it.
OutputNoDefer(c, text) ==
  /\ pc[c] = "running"
  /\ stderrBuffer' = [stderrBuffer EXCEPT ![c] = text]
  /\ \/ /\ pc' = [pc EXCEPT ![c] = "parse"]
        /\ trace' = [trace EXCEPT ![c] = Append(@, Stage("execute", "", NoInode))]
        /\ ret' = ret
     \/ /\ pc' = [pc EXCEPT ![c] = "returned"]
        /\ trace' = [trace EXCEPT ![c] = Append(@, Stage("execute", "exit status 1", NoInode))]
        /\ ret' = [ret EXCEPT ![c] =
                     [report |-> @.report,
                      err |-> NewErr(<<"running trivy: ", "exit status 1", ": ", text>>)]]
  /\ UNCHANGED <<environ, dir, data, writer, req, reportFile, cmd, scanOut>>

\* Mutant: the error message carries the execution error only.
OutputDropsStderr(c, text) ==
  /\ pc[c] = "running"
  /\ stderrBuffer' = [stderrBuffer EXCEPT ![c] = text]
  /\ \/ /\ pc' = [pc EXCEPT ![c] = "parse"]
        /\ trace' = [trace EXCEPT ![c] = Append(@, Stage("execute", "", NoInode))]
        /\ ret' = ret
     \/ /\ pc' = [pc EXCEPT ![c] = "deferred"]
        /\ trace' = [trace EXCEPT ![c] = Append(@, Stage("execute", "exit status 1", NoInode))]
        /\ ret' = [ret EXCEPT ![c] =
                     [report |-> @.report,
                      err |-> NewErr(<<"running trivy: ", "exit status 1">>)]]
  /\ UNCHANGED <<environ, dir, data, writer, req, reportFile, cmd, scanOut>>

\* Lines 93-109: the process exits and cmd.Output() returns.
Output(c, text) ==
  /\ pc[c] = "running"
  /\ stderrBuffer' = [stderrBuffer EXCEPT ![c] = text]
  /\ \/ /\ pc' = [pc EXCEPT ![c] = "parse"]
        /\ trace' = [trace EXCEPT ![c] = Append(@, Stage("execute", "", NoInode))]
        /\ ret' = ret
     \/ /\ pc' = [pc EXCEPT ![c] = "deferred"]
        /\ trace' = [trace EXCEPT ![c] = Append(@, Stage("execute", "exit status 1", NoInode))]
        /\ ret' = [ret EXCEPT ![c] =
                     [report |-> @.report,
                      err |-> NewErr(<<"running trivy: ", "exit status 1", ": ", text>>)]]
  /\ UNCHANGED <<environ, dir, data, writer, req, reportFile, cmd, scanOut>>

\* Lines 111-112: parse the report through the open file and return.
Parse(c) ==
  /\ pc[c] = "parse"
  /\ LET r == parseScanReports(data[reportFile[c].inode])
     IN /\ ret' = [ret EXCEPT ![c] = r]
        /\ trace' = [trace EXCEPT ![c] =
                       Append(@, Stage("parse", IF r.err.isNil THEN "" ELSE r.err.msg[1],
                                       reportFile[c].inode))]
  /\ pc' = [pc EXCEPT ![c] = "deferred"]
  /\ UNCHANGED <<environ, dir, data, writer, req, reportFile, cmd, stderrBuffer, scanOut>>

\* Mutant: the deferred function assigns the removal error to the named
\* result err instead of a local variable.
RemoveMasksErr(c) ==
  /\ pc[c] = "deferred"
  /\ LET n == reportFile[c].name IN
     \/ /\ dir[n] # NoInode
        /\ dir' = [dir EXCEPT ![n] = NoInode]
        /\ trace' = [trace EXCEPT ![c] = Append(@, Stage("delete", "", dir[n]))]
        /\ ret' = [ret EXCEPT ![c] = [report |-> @.report, err |-> NilErr]]
     \/ /\ dir' = dir
        /\ trace' = [trace EXCEPT ![c] = Append(@, Stage("delete", "remove failed", NoInode))]
        /\ ret' = [ret EXCEPT ![c] =
                     [report |-> @.report, err |-> NewErr(<<"remove scan_report: failed">>)]]
  /\ pc' = [pc EXCEPT ![c] = "returned"]
  /\ UNCHANGED <<environ, data, writer, req, reportFile, cmd, stderrBuffer, scanOut>>

\* Lines 49-55: the deferred os.Remove(reportFile.Name()); its error is
\* assigned to a variable local to the deferred function and logged.
Remove(c) ==
  /\ pc[c] = "deferred"
  /\ LET n == reportFile[c].name IN
     \/ /\ dir[n] # NoInode
        /\ dir' = [dir EXCEPT ![n] = NoInode]
        /\ trace' = [trace EXCEPT ![c] = Append(@, Stage("delete", "", dir[n]))]
     \/ /\ dir' = dir
        /\ trace' = [trace EXCEPT ![c] = Append(@, Stage("delete", "remove failed", NoInode))]
  /\ pc' = [pc EXCEPT ![c] = "returned"]
  /\ UNCHANGED <<environ, data, writer, req, reportFile, cmd, stderrBuffer, ret, scanOut>>

\* Concurrent callers sharing one reports directory.
Next ==
  \E c \in Calls :
    \/ \E r \in ConcRequests : Run(c, r)
    \/ TempFile(c)
    \/ StartCmd(c)
    \/ \E bytes \in ConcOutputs : TrivyWrite(c, bytes)
    \/ \E text \in ConcStderrs : Output(c, text)
    \/ Parse(c)
    \/ Remove(c)

Spec == Init /\ [][Next]_vars

\* One caller, every request, ambient environment, scanner output and
\* standard error text.
InitRun == environ \in Environs /\ IdleState

NextRun ==
  \/ \E r \in Requests : Run(1, r)
  \/ TempFile(1)
  \/ StartCmd(1)
  \/ \E bytes \in ScanOutputs : TrivyWrite(1, bytes)
  \/ \E text \in Stderrs : Output(1, text)
  \/ Parse(1)
  \/ Remove(1)

SpecRun == InitRun /\ [][NextRun]_vars

\* parseScanReports applied to every bounded report file: the caller is at
\* line 111 holding a file with arbitrary bytes.
InitParse ==
  /\ environ = BaseEnv
  /\ dir = [n \in Names |-> IF n = 1 THEN 1 ELSE NoInode]
  /\ \E bytes \in ParseInputs :
       /\ data = [i \in Inodes |-> IF i = 1 THEN bytes ELSE EmptyFile]
       /\ scanOut = [c \in Calls |-> IF c = 1 THEN bytes ELSE EmptyFile]
  /\ writer = [i \in Inodes |-> IF i = 1 THEN 1 ELSE 0]
  /\ pc = [c \in Calls |-> IF c = 1 THEN "parse" ELSE "idle"]
  /\ req = [c \in Calls |-> NoReq]
  /\ reportFile = [c \in Calls |-> IF c = 1 THEN [name |-> 1, inode |-> 1] ELSE NoFile]
  /\ cmd = [c \in Calls |-> IF c = 1 THEN [Env |-> BaseEnv, output |-> 1] ELSE NoCmd]
  /\ stderrBuffer = [c \in Calls |-> ""]
  /\ ret = [c \in Calls |-> [report |-> ZeroReport, err |-> NilErr]]
  /\ trace = [c \in Calls |->
                IF c = 1 THEN << Stage("resolve", "", NoInode), Stage("create", "", 1),
                                 Stage("execute", "", NoInode) >>
                ELSE <<>>]

NextParse == Parse(1) \/ Remove(1)

SpecParse == InitParse /\ [][NextParse]_vars

----------------------------------------------------------------------------
\* Vocabulary of the properties.

\* An error's message holds the text.
Contains(e, text) == \E i \in 1..Len(e.msg) : e.msg[i] = text
\* Values a key has in an environment (empty: the variable is absent).
Lookup(env, k) == {env[i][2] : i \in {j \in 1..Len(env) : env[j][1] = k}}

Stages(c) == {trace[c][i] : i \in 1..Len(trace[c])}
Did(c, name)    == \E s \in Stages(c) : s.stage = name
DidOk(c, name)  == \E s \in Stages(c) : s.stage = name /\ s.err = ""
Failed(c, name) == \E s \in Stages(c) : s.stage = name /\ s.err # ""
Linked(i) == \E n \in Names : dir[n] = i
CreatedInode(c) == (CHOOSE s \in Stages(c) : s.stage = "create" /\ s.err = "").inode

\* C1: when a Run call whose temp file was created has returned, and its
\* deletion did not fail, the file it created no longer exists in the reports
\* directory, whichever way the call ended.
C1_TempFileRemoved ==
  \A c \in Calls :
    (pc[c] = "returned" /\ DidOk(c, "create") /\ ~Failed(c, "delete"))
      => ~Linked(CreatedInode(c))

\* Two calls have returned with their files gone: one after its subprocess
\* failed, one after a parse.
C1_Witness ==
  \E c1, c2 \in Calls :
    /\ pc[c1] = "returned" /\ Failed(c1, "execute") /\ DidOk(c1, "delete")
    /\ pc[c2] = "returned" /\ Did(c2, "parse") /\ DidOk(c2, "delete")
    /\ ~Linked(CreatedInode(c1)) /\ ~Linked(CreatedInode(c2))

\* C2: the deferred deletion, whether it succeeds or fails, leaves the pending
\* results (report, err) of the call as they were: what Run returns is what
\* the subprocess and the parse decided.
C2_RemoveKeepsResult ==
  [][\A c \in Calls :
       (pc[c] = "deferred" /\ pc'[c] = "returned") => ret'[c] = ret[c]]_vars

\* A successful scan whose deletion failed has returned its aggregate with a
\* nil error.
C2_Witness ==
  /\ pc[1] = "returned" /\ Failed(1, "delete")
  /\ ret[1].err.isNil /\ Len(ret[1].report.Vulnerabilities) > 0

\* C3: once the subprocess failed to start or exited non-zero, the results of
\* the call are a non-nil error whose message holds both the execution error
\* and the captured stderr text, and the zero report.
C3_ScanFailure ==
  \A c \in Calls : \A s \in Stages(c) :
    (s.stage = "execute" /\ s.err # "") =>
      /\ ~ret[c].err.isNil
      /\ Contains(ret[c].err, s.err)
      /\ Contains(ret[c].err, stderrBuffer[c])
      /\ ret[c].report = ZeroReport

\* The scanner wrote a valid report, then exited 1 with text on stderr, and
\* the call has returned.
C3_Witness ==
  /\ pc[1] = "returned" /\ Failed(1, "execute")
  /\ stderrBuffer[1] = "unable to pull image"
  /\ scanOut[1].kind = "array" /\ Len(scanOut[1].reports) > 0

\* Sub-reports decoded from the file the call parsed, and the number of
\* vulnerabilities in the first k of them.
Decoded(c) == Decode(scanOut[c]).val
Parsed(c) == Did(c, "parse") /\ Decode(scanOut[c]).err = "" /\ Len(Decoded(c)) > 0

RECURSIVE CountUpTo(_, _)
CountUpTo(rs, k) ==
  IF k = 0 THEN 0 ELSE CountUpTo(rs, k - 1) + Len(rs[k].Vulnerabilities)

\* C4: for a non-empty decoded sequence of sub-reports the aggregate's
\* vulnerabilities are the sub-reports' vulnerabilities concatenated in
\* sub-report order: as many as the sub-reports hold together, and the j-th
\* vulnerability of sub-report i stands right after all those of the
\* sub-reports before i and the first j-1 of its own.
C4_Concatenation ==
  \A c \in Calls :
    Parsed(c) =>
      LET rs == Decoded(c)
          vs == ret[c].report.Vulnerabilities
      IN /\ Len(vs) = CountUpTo(rs, Len(rs))
         /\ \A i \in 1..Len(rs) : \A j \in 1..Len(rs[i].Vulnerabilities) :
              vs[CountUpTo(rs, i - 1) + j] = rs[i].Vulnerabilities[j]

\* Two sub-reports with different vulnerability sequences have been merged.
C4_Witness ==
  /\ Parsed(1) /\ Len(Decoded(1)) = 2
  /\ Decoded(1)[1].Vulnerabilities = <<"CVE-2019-0002", "CVE-2019-0001">>
  /\ Decoded(1)[2].Vulnerabilities = <<"CVE-2019-0001">>
  /\ Len(ret[1].report.Vulnerabilities) = 3

\* C5: for a non-empty decoded sequence of sub-reports the aggregate's target
\* is the first sub-report's target.
C5_FirstTarget ==
  \A c \in Calls : Parsed(c) => ret[c].report.Target = Decoded(c)[1].Target

\* Two sub-reports with different targets have been merged.
C5_Witness ==
  /\ Parsed(1) /\ Len(Decoded(1)) = 2
  /\ Decoded(1)[1].Target # Decoded(1)[2].Target
  /\ ret[1].err.isNil

\* C6: a file that decodes without error to zero sub-reports yields the
\* empty-report error, which is not the decode error, and never a nil error;
\* Run returns it.
C6_EmptyReport ==
  \A c \in Calls :
    (Did(c, "parse") /\ Decode(scanOut[c]).err = "" /\ Len(Decoded(c)) = 0) =>
      /\ ~ret[c].err.isNil
      /\ ret[c].err.msg = <<"expected at least one report">>
      /\ ~Contains(ret[c].err, "decoding scan report from file ")
      /\ ret[c].report = ZeroReport

\* The file held the empty array and the call has returned.
C6_Witness ==
  /\ pc[1] = "returned" /\ Did(1, "parse")
  /\ scanOut[1] = JsonArray(<<>>)

\* The environment of the subprocess of call c, once its command is built.
Built(c) == pc[c] \in {"running", "parse", "deferred", "returned"} /\ cmd[c] # NoCmd
SubprocessEnv(c) == dedupEnv(cmd[c].Env)
BothSupplied(c) == req[c].username # "" /\ req[c].password # ""

\* C7 as stated: with both credentials the subprocess has exactly them, with
\* either one empty it has neither variable, whatever the ambient environment.
C7_Original ==
  \A c \in Calls :
    Built(c) =>
      IF BothSupplied(c)
        THEN /\ Lookup(SubprocessEnv(c), TRIVY_USERNAME) = {req[c].username}
             /\ Lookup(SubprocessEnv(c), TRIVY_PASSWORD) = {req[c].password}
        ELSE /\ Lookup(SubprocessEnv(c), TRIVY_USERNAME) = {}
             /\ Lookup(SubprocessEnv(c), TRIVY_PASSWORD) = {}

\* C7 amended: with both credentials the subprocess has exactly them; with
\* either one empty Run adds neither variable, so the subprocess has each of
\* them exactly as the ambient environment has it (absent when the ambient
\* environment has none).
C7_Credentials ==
  \A c \in Calls :
    Built(c) =>
      IF BothSupplied(c)
        THEN /\ Lookup(SubprocessEnv(c), TRIVY_USERNAME) = {req[c].username}
             /\ Lookup(SubprocessEnv(c), TRIVY_PASSWORD) = {req[c].password}
        ELSE /\ Lookup(SubprocessEnv(c), TRIVY_USERNAME) = Lookup(dedupEnv(environ), TRIVY_USERNAME)
             /\ Lookup(SubprocessEnv(c), TRIVY_PASSWORD) = Lookup(dedupEnv(environ), TRIVY_PASSWORD)

\* A username without a password, no ambient credentials: the subprocess has
\* neither variable.
C7_Witness ==
  /\ Built(1) /\ req[1].username = "admin" /\ req[1].password = ""
  /\ Lookup(environ, TRIVY_USERNAME) = {}
  /\ Lookup(SubprocessEnv(1), TRIVY_USERNAME) = {}
  /\ Lookup(SubprocessEnv(1), TRIVY_PASSWORD) = {}

\* C8 as stated: insecureRegistry true gives TRIVY_NON_SSL=true, false gives
\* no TRIVY_NON_SSL variable, whatever the ambient environment.
C8_Original ==
  \A c \in Calls :
    Built(c) =>
      Lookup(SubprocessEnv(c), TRIVY_NON_SSL) = IF req[c].insecure THEN {"true"} ELSE {}

\* C8 amended: insecureRegistry true gives TRIVY_NON_SSL=true; false makes Run
\* add no TRIVY_NON_SSL, so the subprocess has it exactly as the ambient
\* environment has it (absent when the ambient environment has none).
C8_NonSSL ==
  \A c \in Calls :
    Built(c) =>
      Lookup(SubprocessEnv(c), TRIVY_NON_SSL) =
        IF req[c].insecure THEN {"true"} ELSE Lookup(dedupEnv(environ), TRIVY_NON_SSL)

\* insecureRegistry is true over an ambient TRIVY_NON_SSL=false: the
\* subprocess sees "true".
C8_Witness ==
  /\ Built(1) /\ req[1].insecure
  /\ Lookup(environ, TRIVY_NON_SSL) = {"false"}
  /\ Lookup(SubprocessEnv(1), TRIVY_NON_SSL) = {"true"}

\* C9: calls in flight hold temp files of different names; every file a
\* call's subprocess wrote, its parse read or its cleanup deleted is one the
\* call itself created; and a parsed result is the parse of the call's own
\* scanner output.
InFlight(c) == pc[c] \in {"command", "running", "parse", "deferred"}
C9_NoCollision ==
  /\ \A c1, c2 \in Calls :
       (c1 # c2 /\ InFlight(c1) /\ InFlight(c2)) => reportFile[c1].name # reportFile[c2].name
  /\ \A i \in Inodes : writer[i] \in {0, Creator(i)}
  /\ \A c \in Calls : \A s \in Stages(c) : s.inode \in {NoInode, c}
  /\ \A c \in Calls :
       (Did(c, "parse") /\ pc[c] \in {"deferred", "returned"}) =>
         ret[c] = parseScanReports(scanOut[c])

\* Two calls are in flight at once, each about to parse what its own scanner
\* wrote, and the outputs differ.
C9_Witness ==
  /\ pc[1] = "parse" /\ pc[2] = "parse"
  /\ writer[reportFile[1].inode] = 1 /\ writer[reportFile[2].inode] = 2
  /\ scanOut[1] # scanOut[2]

\* C10: the stages run at most once each, in the order resolve, create,
\* execute, parse, delete; a stage other than delete runs only when all stages
\* before it succeeded; after a failed stage only the deletion of a created
\* temp file runs; a failure is what the call returns; and the temp file is
\* deleted only after the parse finished or a stage failed.
Rank(name) ==
  CASE name = "resolve" -> 1 [] name = "create" -> 2 [] name = "execute" -> 3
    [] name = "parse" -> 4 [] OTHER -> 5
C10_StageOrder ==
  \A c \in Calls :
    LET t == trace[c] IN
    /\ \A i, j \in 1..Len(t) : i < j => Rank(t[i].stage) < Rank(t[j].stage)
    /\ \A j \in 1..Len(t) :
         t[j].stage # "delete" =>
           /\ j = Rank(t[j].stage)
           /\ \A i \in 1..(j - 1) : t[i].err = ""
    /\ \A i, j \in 1..Len(t) :
         (i < j /\ t[i].err # "" /\ t[i].stage # "delete") =>
           /\ t[j].stage = "delete"
           /\ DidOk(c, "create")
    /\ \A j \in 1..Len(t) :
         t[j].stage = "delete" =>
           \E i \in 1..(j - 1) : t[i].stage = "parse" \/ t[i].err # ""
    /\ pc[c] = "returned" =>
         (ret[c].err.isNil <=> \A s \in Stages(c) : s.stage = "delete" \/ s.err = "")

\* The subprocess failed and the call has returned: resolve, create, execute
\* and delete ran, parse did not.
C10_Witness ==
  /\ pc[1] = "returned" /\ Failed(1, "execute")
  /\ Len(trace[1]) = 4 /\ trace[1][4].stage = "delete"
  /\ ~ret[1].err.isNil

====
